---- MODULE Spec2Model ----
(***************************************************************************)
(* SOCIMI BORME watcher (socimi_borme_pipeline.py).                        *)
(*                                                                         *)
(* A command (cmd_backfill or cmd_run) walks a range of dates; for each    *)
(* date process_date asks the summary endpoint, walks the items of         *)
(* section C, fetches each item's document, normalises it, looks for an    *)
(* adoption pattern and upserts a row in the table socimi_events.          *)
(*                                                                         *)
(* Dates are day ordinals.  A text is a sequence of characters; a          *)
(* character is the set of the rules of ADOPTION_PATTERNS that match at    *)
(* it, so the filler character is {}; a match of a rule is a maximal run   *)
(* of characters that hold the rule.  Python's None is the string None.    *)
(*                                                                         *)
(* find_adoption is also taken on its own (TextSpec), on texts longer than *)
(* the excerpt window.                                                     *)
(***************************************************************************)
EXTENDS Integers, Sequences, FiniteSets, Bags, TLC

VARIABLES
    pc,             \* position of the running command
    cmd,            \* "none" | "backfill" | "run"
    has_table,      \* the table socimi_events exists in DB_FILE
    socimi_events,  \* the rows of the table, a bag (sqlite keeps one row per rowid)
    start,          \* first date of the range
    end,            \* last date of the range (today)
    cur,            \* daterange's cur
    total,          \* the command's total
    items,          \* what is left of iter_section_c_items(sumario) in process_date
    count,          \* process_date's count
    processed,      \* history: the dates process_date was called with in this run
    stderr,         \* dates reported by the except branch of this run
    stdout,         \* the totals printed at the end of the run
    returned,       \* history: what process_date returned, per date of this run
    last,           \* history: what the last step did and what it was served
    matched_ids,    \* history: identifiers whose document was fetched and matched
    saved_ids,      \* history: identifiers whose save_event returned normally
    before,         \* history: the table when the current process_date began
    requests,       \* history: document requests sent by the current process_date
    saved_recs,     \* history: the records whose save_event returned normally, a bag
    txt,            \* the argument of a find_adoption call taken on its own
    result          \* the result of that call

vars == <<pc, cmd, has_table, socimi_events, start, end, cur, total, items, count,
          processed, stderr, stdout, returned, last, matched_ids, saved_ids, before,
          requests, saved_recs, txt, result>>

\* the variables of a find_adoption call taken on its own
text_vars == <<txt, result>>

----------------------------------------------------------------------------
(* Bounds of the model *)

\* dates are 0 .. MaxDay
MaxDay == 1

Days == 0 .. MaxDay

\* length in days of the window that stands for the twelve months of cmd_run
WindowDays == 1

\* the paddings around a match are within MaxExtra of 0 and of ExcerptPad
MaxExtra == 1

\* a match is 1 .. MaxMatchLen characters long
MaxMatchLen == 2

----------------------------------------------------------------------------
(* Values *)

None == "None"

\* dt.date.isoformat(): the ISO text of a date
isoformat(d) == <<"iso", d>>

\* ADOPTION_PATTERNS: the rules, in their order
NumPatterns == 6
ADOPTION_PATTERNS == 1 .. NumPatterns

\* window around a match kept in the excerpt
ExcerptPad == 140

Filler == {}

\* a max that forgets to clip: its first argument
Max_unclipped(a, b) == a

Max(a, b) == IF a >= b THEN a ELSE b
Min(a, b) == IF a <= b THEN a ELSE b

\* text[lo:hi] of Python, for 0-based lo and hi: a negative index counts
\* from the end, and both ends are clipped to the text
Slice(text, lo, hi) ==
    LET n == Len(text)
        clip(i) == IF i < 0 THEN (IF n + i < 0 THEN 0 ELSE n + i)
                   ELSE IF i > n THEN n ELSE i
    IN  SubSeq(text, clip(lo) + 1, clip(hi))

----------------------------------------------------------------------------
(* JSON fields that may be absent, one object or a list *)

Absent == [shape |-> "absent"]
One(x) == [shape |-> "one", v |-> x]
List(s) == [shape |-> "list", v |-> s]

_as_list(x) ==
    IF x.shape = "absent" THEN << >>
    ELSE IF x.shape = "list" THEN x.v
    ELSE << x.v >>

\* a url_html / url_pdf value of an item: missing, a string, or a dict
\* whose "texto" may be missing
UrlNone == [kind |-> "none", texto |-> None]
UrlStr(s) == [kind |-> "str", texto |-> s]
UrlDict(s) == [kind |-> "dict", texto |-> s]

\* (item.get(k) or {}).get("texto") if isinstance(item.get(k), dict) else item.get(k)
UrlOf(u) == IF u.kind = "none" THEN None ELSE u.texto

\* "if url_html is None" in place of "if not url_html"
Truthy_not_none(s) == s # None

\* Python truthiness of an optional string
Truthy(s) == s # None /\ s # ""

----------------------------------------------------------------------------
(* The documents the document endpoint may serve *)

\* An HTML document is a sequence of elements, each a tag and its text.
El(tag, text) == [tag |-> tag, text |-> text]

\* the elements text_from_borme_html decomposes
RemovedTags == {"nav", "header", "footer", "script", "style"}

RECURSIVE JoinTexts(_)
JoinTexts(els) ==
    IF els = << >> THEN << >>
    ELSE IF Len(els) = 1 THEN Head(els).text
    ELSE Head(els).text \o << Filler >> \o JoinTexts(Tail(els))

\* soup.find_all([...]).decompose(), then get_text(" ", strip=True): the
\* non-empty texts of the elements that are left, joined by one blank
text_from_borme_html(html) ==
    JoinTexts(SelectSeq(html, LAMBDA e : e.tag \notin RemovedTags /\ e.text # << >>))

\* rx.search(text): the 1-based position of the leftmost match of rule k, 0 if none
Search(k, text) ==
    LET hits == {i \in 1 .. Len(text) : k \in text[i]}
    IN  IF hits = {} THEN 0 ELSE CHOOSE i \in hits : \A j \in hits : i <= j

\* m.end() of the match of rule k that starts at position p: the 1-based
\* position of its last character (the 0-based position after the match)
MatchEnd(k, text, p) ==
    CHOOSE e \in p .. Len(text) :
        /\ \A i \in p .. e : k \in text[i]
        /\ (e = Len(text) \/ k \notin text[e + 1])

NoHit == [pattern |-> 0, excerpt |-> << >>]
IsHit(h) == h.pattern # 0

\* the body of "if m": the rule and the excerpt around its match at p
HitAt(k, text, p) ==
    LET s == Max((p - 1) - ExcerptPad, 0)
        e == Min(MatchEnd(k, text, p) + ExcerptPad, Len(text))
    IN  [pattern |-> k, excerpt |-> Slice(text, s, e)]

\* the for loop of find_adoption from rule k on
RECURSIVE FindFrom(_, _)
FindFrom(k, text) ==
    IF k > NumPatterns THEN NoHit
    ELSE LET p == Search(k, text)
         IN  IF p # 0 THEN HitAt(k, text, p) ELSE FindFrom(k + 1, text)

\* a find_adoption that returns the rule whose match comes first in the text
find_adoption_leftmost(text) ==
    LET ks == {k \in ADOPTION_PATTERNS : Search(k, text) # 0}
    IN  IF ks = {} THEN NoHit
        ELSE LET k == CHOOSE x \in ks : \A y \in ks :
                          \/ Search(x, text) < Search(y, text)
                          \/ Search(x, text) = Search(y, text) /\ x <= y
             IN  HitAt(k, text, Search(k, text))

\* a find_adoption that falls back on the last rule and the whole text
find_adoption_default(text) ==
    IF IsHit(FindFrom(1, text)) THEN FindFrom(1, text)
    ELSE [pattern |-> NumPatterns, excerpt |-> text]

find_adoption(text) == FindFrom(1, text)

DocEmpty == << >>
DocNoMatch == << El("p", << Filler, Filler >>) >>
DocScriptOnly == << El("script", << {6} >>), El("p", << Filler >>) >>
DocRule1 == << El("nav", << Filler >>), El("p", << Filler, {1} >>) >>
DocTwoRules == << El("p", << {6} >>), El("style", << {1} >>), El("p", << {2} >>) >>

Docs == {DocEmpty, DocNoMatch, DocScriptOnly, DocRule1, DocTwoRules}

\* requests.get(url) in fetch_html: status 0 stands for a RequestException;
\* an answer of another status than 200 carries a body too
HtmlResponses ==
    {[status |-> 0, text |-> DocEmpty]}
    \cup {[status |-> 500, text |-> d] : d \in {DocNoMatch, DocRule1}}
    \cup {[status |-> 200, text |-> d] : d \in Docs}

\* a fetch_html that does not look at the status
fetch_html_any_status(resp) == resp.text

\* fetch_html: the text of a 200 answer, None otherwise; None and "" are both falsy
fetch_html(resp) == IF resp.status = 200 THEN resp.text ELSE DocEmpty

----------------------------------------------------------------------------
(* The summaries the summary endpoint may serve *)

Item(ident, titulo, html, pdf) ==
    [identificador |-> ident, titulo |-> titulo, url_html |-> html, url_pdf |-> pdf]

itA == Item("A", "ACME", UrlStr("uA"), UrlStr("pA"))
itB == Item("B", "BETA", UrlDict("uB"), UrlNone)
itNoId == Item(None, None, UrlStr("uN"), UrlNone)
itNoUrl == Item("B", "BETA", UrlNone, UrlStr("pB"))
itEmptyUrl == Item("A", "ACME", UrlStr(""), UrlNone)
itNoTexto == Item("B", "BETA", UrlDict(None), UrlNone)

Apartado(nombre, item) == [nombre |-> nombre, item |-> item]
Seccion(codigo, apartado, item) == [codigo |-> codigo, apartado |-> apartado, item |-> item]
Diario(seccion) == [seccion |-> seccion]
\* sumario["data"]["sumario"]["diario"]; empty is the JSON document {}
Sumario(diario) == [empty |-> FALSE, diario |-> diario]
EmptySumario == [empty |-> TRUE, diario |-> Absent]

RECURSIVE Flatten(_)
Flatten(ss) == IF ss = << >> THEN << >> ELSE Head(ss) \o Flatten(Tail(ss))

Pairs(its, ap_name) == [i \in 1 .. Len(its) |-> [item |-> its[i], apartado |-> ap_name]]

SectionItems(s) ==
    IF s.codigo # "C" THEN << >>
    ELSE LET apartados == _as_list(s.apartado)
         IN  Flatten([i \in 1 .. Len(apartados) |->
                        Pairs(_as_list(apartados[i].item), apartados[i].nombre)])
             \o Pairs(_as_list(s.item), None)

DiarioItems(diario) ==
    LET secciones == _as_list(diario.seccion)
    IN  Flatten([i \in 1 .. Len(secciones) |-> SectionItems(secciones[i])])

iter_section_c_items(sumario) ==
    LET diarios == _as_list(sumario.diario)
    IN  Flatten([i \in 1 .. Len(diarios) |-> DiarioItems(diarios[i])])

\* section A before a section C with one apartado
Sum1 == Sumario(One(Diario(List(<<
            Seccion("A", Absent, One(itB)),
            Seccion("C", One(Apartado("ap", List(<< itA, itB >>))), Absent) >>))))
\* a section C with an item attached directly, in a list of diarios
Sum2 == Sumario(List(<< Diario(One(Seccion("C", Absent, One(itB)))) >>))
\* a section C with an apartado and with direct items, one without identificador
Sum3 == Sumario(One(Diario(One(
            Seccion("C", List(<< Apartado("ap", One(itA)) >>), One(itNoId))))))
\* an item without url_html, then the same identifier twice
Sum4 == Sumario(One(Diario(One(
            Seccion("C", Absent, List(<< itNoUrl, itA, itA >>))))))
\* items whose url_html is empty or a dict without texto
Sum5 == Sumario(One(Diario(One(
            Seccion("C", Absent, List(<< itEmptyUrl, itNoTexto >>))))))
\* no diario at all
Sum6 == Sumario(Absent)
\* a section C without apartados whose only item has no identificador
Sum7 == Sumario(One(Diario(One(Seccion("C", Absent, One(itNoId))))))

\* the summaries the endpoint may serve for date d: days 0 and 1 publish
\* items with documents, day 0 also items without identificador, and the
\* later days publish nothing that can be fetched
Sumarios(d) ==
    {Sum5, Sum6, EmptySumario}
    \cup (IF d \in {0, 1} THEN {Sum1, Sum2, Sum4} ELSE {})
    \cup (IF d = 0 THEN {Sum3, Sum7} ELSE {})

\* requests.get(url) in fetch_sumario: status 0 stands for an exception of
\* requests.get, bad_json for r.json() raising
SumarioResponses(d) ==
    {[status |-> 0, bad_json |-> FALSE, json |-> EmptySumario],
     [status |-> 404, bad_json |-> FALSE, json |-> EmptySumario],
     [status |-> 500, bad_json |-> FALSE, json |-> EmptySumario],
     [status |-> 200, bad_json |-> TRUE, json |-> EmptySumario]}
    \cup {[status |-> 200, bad_json |-> FALSE, json |-> s] : s \in Sumarios(d)}

\* a fetch_sumario without its 404 test: raise_for_status raises on 404 too
SumarioRaises_no404(resp) == resp.status # 200 \/ resp.bad_json

\* fetch_sumario raises: requests.get, raise_for_status or r.json() failed
SumarioRaises(resp) ==
    \/ resp.status = 0
    \/ resp.status \notin {200, 404}
    \/ resp.status = 200 /\ resp.bad_json

\* "if not sumario": None (404) or an empty document
NoSumario(resp) == resp.status = 404 \/ resp.json.empty

----------------------------------------------------------------------------
(* The table socimi_events *)

\* the rows of the table with the given id
RowsWithId(db, i) == {r \in BagToSet(db) : r.id = i}
\* how many rows the table holds with the given id
CountId(db, i) ==
    LET rs == RowsWithId(db, i)
        RECURSIVE Sum(_)
        Sum(S) == IF S = {} THEN 0
                  ELSE LET r == CHOOSE x \in S : TRUE
                       IN  CopiesIn(r, db) + Sum(S \ {r})
    IN  Sum(rs)
Ids(db) == {r.id : r \in BagToSet(db)}

\* CREATE TABLE IF NOT EXISTS: an existing table keeps its rows
ensure_db(exists, db) == IF exists THEN db ELSE EmptyBag

\* a table without its key: every save adds a row
save_event_no_key(db, rec) == db (+) SetToBag({rec})

\* INSERT OR REPLACE into a table keyed on pub_date: the rows of the same
\* date are replaced, whatever their id
save_event_key_pub_date(db, rec) ==
    LET same == {r \in BagToSet(db) : r.pub_date = rec.pub_date}
    IN  [r \in (BagToSet(db) \ same) \cup {rec} |-> IF r = rec THEN 1 ELSE db[r]]

\* ON CONFLICT(id) DO NOTHING: the first row wins
save_event_keep_old(db, rec) ==
    IF rec.id # None /\ RowsWithId(db, rec.id) # {}
    THEN db
    ELSE db (+) SetToBag({rec})

\* INSERT ... ON CONFLICT(id) DO UPDATE SET <every other column>.
\* id is TEXT PRIMARY KEY of a rowid table: sqlite admits NULL there and
\* never finds two NULLs in conflict.
save_event(db, rec) ==
    IF rec.id # None /\ RowsWithId(db, rec.id) # {}
    THEN LET old == CHOOSE r \in RowsWithId(db, rec.id) : TRUE
         IN  (db (-) SetToBag({old})) (+) SetToBag({rec})
    ELSE db (+) SetToBag({rec})

----------------------------------------------------------------------------
(* History records *)

NoRec == [id |-> None, pub_date |-> None, company |-> None, apartado |-> None,
          url_html |-> None, url_pdf |-> None, matched_pattern |-> 0, excerpt |-> << >>]

\* what a step did: its kind; whether it asked the summary endpoint
\* ("sumario"), handled an item ("item") or neither ("none"); the item's
\* identificador; whether a document request was sent; the status and the
\* body the endpoint answered; the record handed to save_event; the
\* summary the summary endpoint answered; how many items the item loop had
\* yet to take when the step was over
Did(kind, of, ident, requested, status, text, rec) ==
    [kind |-> kind, of |-> of, id |-> ident, requested |-> requested,
     status |-> status, text |-> text, rec |-> rec, json |-> EmptySumario, left |-> 0]
Step(kind) == Did(kind, "none", None, FALSE, 0, DocEmpty, NoRec)
SumarioStep(kind, resp) ==
    [Did(kind, "sumario", None, FALSE, resp.status, DocEmpty, NoRec)
        EXCEPT !.json = resp.json]

\* the exits of the commands
Terminal == {"done", "crashed"}

\* the record process_date builds for a hit
Rec(it, apartado, fecha, hit) ==
    [id |-> it.identificador,
     pub_date |-> isoformat(fecha),
     company |-> it.titulo,
     apartado |-> apartado,
     url_html |-> UrlOf(it.url_html),
     url_pdf |-> UrlOf(it.url_pdf),
     matched_pattern |-> hit.pattern,
     excerpt |-> hit.excerpt]

----------------------------------------------------------------------------
(* State machine *)

\* DB_FILE as earlier runs of the command may have left it (the workflow keeps
\* the file between runs): no table yet, or rows that process_date stored
OldRowA == Rec(itA, "ap", 0, find_adoption(text_from_borme_html(DocRule1)))
OldRowB == Rec(itB, None, MaxDay, find_adoption(text_from_borme_html(DocTwoRules)))
OldRowNoId == Rec(itNoId, None, 0, find_adoption(text_from_borme_html(DocRule1)))

OldTables ==
    {EmptyBag,
     save_event(EmptyBag, OldRowA),
     save_event(save_event(save_event(EmptyBag, OldRowA), OldRowB), OldRowNoId)}

Init ==
    /\ pc = "idle"
    /\ cmd = "none"
    /\ \E old \in OldTables :
        /\ socimi_events = old
        /\ has_table = (old # EmptyBag)
        /\ before = old
    /\ start = 0
    /\ end = 0
    /\ cur = 0
    /\ total = 0
    /\ items = << >>
    /\ count = 0
    /\ processed = << >>
    /\ stderr = << >>
    /\ stdout = << >>
    /\ returned = << >>
    /\ last = Step("init")
    /\ matched_ids = {}
    /\ saved_ids = {}
    /\ requests = 0
    /\ saved_recs = EmptyBag
    /\ txt = << >>
    /\ result = NoHit

\* cmd_backfill up to the for loop: parse --from, take today, open the
\* database, ensure_db
cmd_backfill ==
    /\ pc = "idle"
    /\ cmd' = "backfill"
    /\ \E valid \in BOOLEAN, arg \in 0 .. MaxDay + 1, today \in Days :
        IF ~valid
        THEN \* date.fromisoformat raises ValueError
             /\ arg = 0
             /\ today = 0
             /\ pc' = "crashed"
             /\ last' = Step("bad_start")
             /\ UNCHANGED <<has_table, socimi_events, start, end, cur, total>>
        ELSE /\ start' = arg
             /\ end' = today
             /\ total' = 0
             /\ has_table' = TRUE
             /\ socimi_events' = ensure_db(has_table, socimi_events)
             /\ cur' = arg
             /\ pc' = "daterange"
             /\ last' = Step("backfill")
    /\ UNCHANGED <<items, count, processed, stderr, stdout, returned, matched_ids,
                   saved_ids, before, requests, saved_recs, text_vars>>

\* cmd_run: today is taken, then relativedelta, a name the module never
\* imports, raises NameError before total, the database and the loop
cmd_run ==
    /\ pc = "idle"
    /\ cmd' = "run"
    /\ \E today \in Days : end' = today
    /\ pc' = "crashed"
    /\ last' = Step("name_error")
    /\ UNCHANGED <<has_table, socimi_events, start, cur, total, items, count, processed,
                   stderr, stdout, returned, matched_ids, saved_ids, before, requests,
                   saved_recs, text_vars>>

\* a daterange that leaves its last date out
daterange_more_exclusive(c, d2) == c < d2

\* the while condition of daterange
daterange_more(c, d2) == c <= d2

\* daterange yields cur and the loop body calls process_date(cur)
daterange_yield ==
    /\ pc = "daterange"
    /\ daterange_more(cur, end)
    /\ pc' = "fetch_sumario"
    /\ processed' = Append(processed, cur)
    /\ before' = socimi_events
    /\ requests' = 0
    /\ last' = Step("yield")
    /\ UNCHANGED <<cmd, has_table, socimi_events, start, end, cur, total, items, count,
                   stderr, stdout, returned, matched_ids, saved_ids, saved_recs, text_vars>>

\* daterange is exhausted: the with block ends and the total is printed
daterange_stop ==
    /\ pc = "daterange"
    /\ ~daterange_more(cur, end)
    /\ stdout' = Append(stdout, total)
    /\ pc' = "done"
    /\ last' = Step("print_total")
    /\ UNCHANGED <<cmd, has_table, socimi_events, start, end, cur, total, items, count,
                   processed, stderr, returned, matched_ids, saved_ids, before, requests,
                   saved_recs, text_vars>>

\* a loop without its try: the exception ends the command
Caught_reraise ==
    /\ pc' = "crashed"
    /\ items' = << >>
    /\ UNCHANGED <<cur, stderr, total, stdout, processed, returned>>

\* an except branch that adds what the failed date had counted so far
Caught_counts_partial ==
    /\ stderr' = Append(stderr, cur)
    /\ cur' = cur + 1
    /\ pc' = "daterange"
    /\ items' = << >>
    /\ total' = total + count
    /\ UNCHANGED <<stdout, processed, returned>>

\* a try/except around save_event inside the item loop: the item is given
\* up and the loop goes on with the next item
Caught_skip_item ==
    IF pc = "items"
    THEN /\ items' = Tail(items)
         /\ UNCHANGED <<pc, cur, stderr, total, stdout, processed, returned>>
    ELSE /\ stderr' = Append(stderr, cur)
         /\ cur' = cur + 1
         /\ pc' = "daterange"
         /\ items' = << >>
         /\ UNCHANGED <<total, stdout, processed, returned>>

\* an except branch that tries the same date again
Caught_retry ==
    /\ pc' = "fetch_sumario"
    /\ items' = << >>
    /\ UNCHANGED <<cur, stderr, total, stdout, processed, returned>>

\* the except branch of the loop: report the date, go on with the next one
\* (the time.sleep of the try block is skipped)
Caught ==
    /\ stderr' = Append(stderr, cur)
    /\ cur' = cur + 1
    /\ pc' = "daterange"
    /\ items' = << >>
    /\ UNCHANGED <<total, stdout, processed, returned>>

\* process_date returns n: total += n, then time.sleep
Returned(n) ==
    /\ total' = total + n
    /\ returned' = Append(returned, [d |-> cur, n |-> n])
    /\ pc' = "sleep"
    /\ items' = << >>
    /\ UNCHANGED <<cur, stderr, stdout, processed>>

\* fetch_sumario and the test of its result in process_date: the call
\* raises, or there is no summary and process_date returns 0, or count = 0
\* and the item loop starts
process_date_fetch_sumario ==
    /\ pc = "fetch_sumario"
    /\ \E resp \in SumarioResponses(cur) :
        IF SumarioRaises(resp)
        THEN /\ Caught
             /\ last' = SumarioStep("sumario_raised", resp)
             /\ UNCHANGED count
        ELSE IF NoSumario(resp)
        THEN /\ Returned(0)
             /\ last' = SumarioStep("no_sumario", resp)
             /\ UNCHANGED count
        ELSE /\ items' = iter_section_c_items(resp.json)
             /\ count' = 0
             /\ pc' = "items"
             /\ last' = SumarioStep("sumario", resp)
             /\ UNCHANGED <<cur, total, processed, stderr, stdout, returned>>
    /\ UNCHANGED <<cmd, has_table, socimi_events, start, end, matched_ids, saved_ids,
                   before, requests, saved_recs, text_vars>>

\* "continue", or the end of the loop body: on to the next item
NextItem ==
    /\ items' = Tail(items)
    /\ UNCHANGED <<pc, cur, total, processed, stderr, stdout, returned>>

\* conn.execute and conn.commit of save_event may each raise
SaveOutcomes == {"ok", "execute_raises", "commit_raises"}

\* one turn of the item loop of process_date
process_date_item ==
    /\ pc = "items"
    /\ items # << >>
    /\ LET it == Head(items).item
           ident == it.identificador
           url_html == UrlOf(it.url_html)
       IN  IF ~Truthy(url_html)
           THEN /\ NextItem
                /\ last' = [Did("no_url", "item", ident, FALSE, 0, DocEmpty, NoRec)
                                EXCEPT !.left = Len(items) - 1]
                /\ UNCHANGED <<socimi_events, count, matched_ids, saved_ids, requests,
                               saved_recs>>
           ELSE \E resp \in HtmlResponses, saved \in SaveOutcomes :
                LET html == fetch_html(resp)
                    hit == find_adoption(text_from_borme_html(html))
                    rec == Rec(it, Head(items).apartado, cur, hit)
                    did(kind, r) ==
                        [Did(kind, "item", ident, TRUE, resp.status, resp.text, r)
                            EXCEPT !.left = Len(items) - 1]
                IN  /\ requests' = requests + 1
                    /\ IF html = DocEmpty
                       THEN /\ saved = "ok"
                            /\ NextItem
                            /\ last' = did("no_html", NoRec)
                            /\ UNCHANGED <<socimi_events, count, matched_ids, saved_ids,
                                           saved_recs>>
                       ELSE IF ~IsHit(hit)
                       THEN /\ saved = "ok"
                            /\ NextItem
                            /\ last' = did("no_hit", NoRec)
                            /\ UNCHANGED <<socimi_events, count, matched_ids, saved_ids,
                                           saved_recs>>
                       ELSE /\ matched_ids' = matched_ids \cup {ident}
                            /\ last' = did(IF saved = "ok" THEN "saved" ELSE saved, rec)
                            /\ IF saved = "ok"
                               THEN /\ socimi_events' = save_event(socimi_events, rec)
                                    /\ count' = count + 1
                                    /\ saved_ids' = saved_ids \cup {ident}
                                    /\ saved_recs' = saved_recs (+) SetToBag({rec})
                                    /\ NextItem
                               ELSE /\ socimi_events' =
                                           IF saved = "commit_raises"
                                           THEN save_event(socimi_events, rec)
                                           ELSE socimi_events
                                    /\ Caught
                                    /\ UNCHANGED <<count, saved_ids, saved_recs>>
    /\ UNCHANGED <<cmd, has_table, start, end, before, text_vars>>

\* the item loop is over: process_date returns count
process_date_return ==
    /\ pc = "items"
    /\ items = << >>
    /\ Returned(count)
    /\ last' = Step("returned")
    /\ UNCHANGED <<cmd, has_table, socimi_events, start, end, count, matched_ids,
                   saved_ids, before, requests, saved_recs, text_vars>>

\* time.sleep after a process_date that returned; daterange then steps cur
sleep ==
    /\ pc = "sleep"
    /\ cur' = cur + 1
    /\ pc' = "daterange"
    /\ last' = Step("slept")
    /\ UNCHANGED <<cmd, has_table, socimi_events, start, end, total, items, count,
                   processed, stderr, stdout, returned, matched_ids, saved_ids, before,
                   requests, saved_recs, text_vars>>

Next ==
    \/ cmd_backfill
    \/ cmd_run
    \/ daterange_yield
    \/ daterange_stop
    \/ process_date_fetch_sumario
    \/ process_date_item
    \/ process_date_return
    \/ sleep

Spec == Init /\ [][Next]_vars

\* the command is one sequential process that keeps running until it exits
FairSpec == Spec /\ WF_vars(Next)

----------------------------------------------------------------------------
(* find_adoption on its own *)

Pad(n) == [i \in 1 .. n |-> Filler]
\* n characters at which the rules ks match
Match(ks, n) == [i \in 1 .. n |-> ks]

\* lengths of the text before, between and after the matches: around 0 and
\* around the excerpt window
Gaps == (0 .. MaxExtra) \cup ((ExcerptPad - MaxExtra) .. (ExcerptPad + MaxExtra))
TailGaps == {0, ExcerptPad + MaxExtra}

\* the rules of a match: none, one rule, or two rules that match the same span
FirstRules == {{}} \cup {{k} : k \in ADOPTION_PATTERNS} \cup {{1, 6}}
SecondRules == {{}, {1}, {2}, {6}}

\* texts with up to two matches: the first of any length up to
\* MaxMatchLen, the second of one character
Texts ==
    {Pad(a) \o Match(k1, m) \o Pad(b) \o Match(k2, 1) \o Pad(c) :
        a \in Gaps, b \in Gaps, c \in TailGaps, m \in 1 .. MaxMatchLen,
        k1 \in FirstRules, k2 \in SecondRules}

TextInit ==
    /\ pc = "find_adoption"
    /\ txt \in Texts
    /\ result = NoHit
    /\ cmd = "none"
    /\ has_table = FALSE
    /\ socimi_events = EmptyBag
    /\ before = EmptyBag
    /\ saved_recs = EmptyBag
    /\ start = 0
    /\ end = 0
    /\ cur = 0
    /\ total = 0
    /\ items = << >>
    /\ count = 0
    /\ processed = << >>
    /\ stderr = << >>
    /\ stdout = << >>
    /\ returned = << >>
    /\ last = Step("init")
    /\ matched_ids = {}
    /\ saved_ids = {}
    /\ requests = 0

\* result = find_adoption(txt)
find_adoption_call ==
    /\ pc = "find_adoption"
    /\ result' = find_adoption(txt)
    /\ pc' = "found"
    /\ UNCHANGED <<cmd, has_table, socimi_events, start, end, cur, total, items, count,
                   processed, stderr, stdout, returned, last, matched_ids, saved_ids,
                   before, requests, saved_recs, txt>>

TextNext == find_adoption_call

TextSpec == TextInit /\ [][TextNext]_vars

----------------------------------------------------------------------------
(* Properties *)

\* the dates d1 .. d2 in ascending order
RangeSeq(d1, d2) == IF d1 <= d2 THEN [i \in 1 .. (d2 - d1 + 1) |-> d1 + i - 1] ELSE << >>
SeqSet(sq) == {sq[i] : i \in 1 .. Len(sq)}

RECURSIVE SumN(_)
SumN(rs) == IF rs = << >> THEN 0 ELSE Head(rs).n + SumN(Tail(rs))

\* C1, as claimed: after any sequence of process_date calls, for every
\* identifier whose document was fetched and matched a pattern the table
\* holds exactly one row with that id, never zero and never more than one.
C1_MatchedStoredOnce ==
    \A i \in matched_ids \ {None} : CountId(socimi_events, i) = 1

\* C1, amended: for every identifier whose document was fetched and matched
\* a pattern the table never holds more than one row with that id, and it
\* holds exactly one when save_event returned normally for that identifier
\* (a save_event that raises may leave no row).
C1_SavedStoredOnce ==
    \A i \in matched_ids \ {None} :
        /\ CountId(socimi_events, i) <= 1
        /\ i \in saved_ids => CountId(socimi_events, i) = 1

\* C1, witness: an identifier stored by an earlier processing of the same
\* date is matched and saved again, and still has one row.
C1_Reprocessed ==
    /\ last.kind = "saved"
    /\ last.id # None
    /\ \E r \in RowsWithId(before, last.id) : r.pub_date = last.rec.pub_date
    /\ CountId(socimi_events, last.id) = 1

\* a step in which process_date raises
RaisingStep ==
    /\ pc \in {"fetch_sumario", "items"}
    /\ last'.kind \in {"sumario_raised", "execute_raises", "commit_raises"}

\* C2: in a range run, an exception of process_date for a date d is caught
\* and reported, d adds 0 to the total, every later date of the range is
\* still processed, and the final total is the sum of the counts returned
\* for the dates that did not raise.
C2_RangeSurvivesExceptions ==
    /\ [][RaisingStep =>
            /\ pc' = "daterange"
            /\ cur' = cur + 1
            /\ total' = total
            /\ stderr' = Append(stderr, cur)]_vars
    /\ [](pc \notin {"idle", "crashed"} =>
            /\ total = SumN(returned)
            /\ \A i \in 1 .. Len(returned) : returned[i].d \notin SeqSet(stderr))
    /\ [](pc = "done" =>
            /\ processed = RangeSeq(start, end)
            /\ SeqSet(processed) = SeqSet(stderr) \cup {returned[i].d : i \in 1 .. Len(returned)}
            /\ stdout = << SumN(returned) >>)

\* C2, witness: the run ended, a date raised, and a later date returned a
\* count that is in the total.
C2_LaterDateCounted ==
    /\ pc = "done"
    /\ \E i \in 1 .. Len(stderr), j \in 1 .. Len(returned) :
        /\ returned[j].d > stderr[i]
        /\ returned[j].n > 0

\* C3: for every date whose summary request is answered 404, process_date
\* returns 0, fetches no document and leaves the table as it was before
\* the call.
C3_NoSummaryNoEffect ==
    (last.of = "sumario" /\ last.status = 404) =>
        /\ pc = "sleep"
        /\ returned # << >>
        /\ returned[Len(returned)] = [d |-> cur, n |-> 0]
        /\ cur \notin SeqSet(stderr)
        /\ requests = 0
        /\ socimi_events = before

\* C3, witness: a 404 for a date, with rows in the table.
C3_NotFoundSeen ==
    /\ last.of = "sumario"
    /\ last.status = 404
    /\ socimi_events # EmptyBag

\* C4: when save_event(e2) meets a row e1 with the same id and other fields
\* that differ, it leaves exactly one row with that id, equal to e2 in
\* every field (and adds no row).
C4_UpsertOverwrites ==
    [][(/\ pc = "items"
        /\ last'.kind = "saved"
        /\ last'.id # None
        /\ RowsWithId(socimi_events, last'.id) # {}
        /\ RowsWithId(socimi_events, last'.id) # {last'.rec})
       =>
       (/\ RowsWithId(socimi_events', last'.id) = {last'.rec}
        /\ CountId(socimi_events', last'.id) = 1
        /\ BagCardinality(socimi_events') = BagCardinality(socimi_events))]_vars

\* C4, witness: the id was in the table with other fields when this
\* process_date began, and has just been saved.
C4_Overwritten ==
    /\ last.kind = "saved"
    /\ last.id # None
    /\ RowsWithId(before, last.id) # {}
    /\ last.rec \notin RowsWithId(before, last.id)
    /\ RowsWithId(socimi_events, last.id) = {last.rec}

\* C5: save_event(e) a second time yields the table that the first call
\* left: one row for e.id, with the fields of e.
C5_UpsertIdempotent ==
    (last.kind = "saved" /\ last.id # None) =>
        LET again == save_event(socimi_events, last.rec)
        IN  /\ again = socimi_events
            /\ CountId(again, last.id) = 1
            /\ RowsWithId(again, last.id) = {last.rec}

\* C5, witness: the record just saved is the very row the table already
\* held when this process_date began.
C5_SavedTwice ==
    /\ last.kind = "saved"
    /\ last.id # None
    /\ BagIn(last.rec, before)
    /\ CountId(socimi_events, last.id) = 1

\* C6, as claimed: process_date returns the number of events newly stored by
\* the call, the ids in the table after it that were not there before it.
C6_CountIsNewIds ==
    (pc = "sleep" /\ returned # << >>) =>
        returned[Len(returned)].n = Cardinality(Ids(socimi_events) \ Ids(before))

\* the document request of the item step being taken failed
FailedFetchStep ==
    /\ pc = "items"
    /\ items # << >>
    /\ last'.of = "item"
    /\ last'.requested
    /\ last'.status # 200

\* C7: when the document fetch of an item fails (network error or a status
\* other than 200) the item is skipped without touching the table, the
\* loop goes on with the remaining items, and no exception leaves
\* process_date.
C7_FailedFetchSkipsItem ==
    [][FailedFetchStep =>
         /\ socimi_events' = socimi_events
         /\ count' = count
         /\ pc' = "items"
         /\ items' = Tail(items)
         /\ stderr' = stderr
         /\ last'.kind = "no_html"]_vars

\* C7, witness: a failed fetch (its body even holds a match) with items left.
C7_FetchFailed ==
    /\ last.of = "item"
    /\ last.requested
    /\ last.status = 500
    /\ last.text = DocRule1
    /\ pc = "items"
    /\ items # << >>

\* no rule of ADOPTION_PATTERNS matches anywhere in the text
NoRuleMatches(text) == \A k \in ADOPTION_PATTERNS : \A i \in 1 .. Len(text) : k \notin text[i]

\* C8: an item whose normalized document text matches none of the patterns
\* causes no change of the table (neither of the row of its identifier nor
\* of any other row) and adds nothing to the count.
C8_NoMatchNoWrite ==
    [][(/\ pc = "items"
        /\ items # << >>
        /\ last'.of = "item"
        /\ last'.requested
        /\ last'.status = 200
        /\ NoRuleMatches(text_from_borme_html(last'.text)))
       =>
       (/\ socimi_events' = socimi_events
        /\ count' = count
        /\ pc' = "items")]_vars

\* C8, witness: a document whose only match sits in a script element was
\* fetched for an identifier that has a row, and the table is as before.
C8_NoMatchSeen ==
    /\ last.of = "item"
    /\ last.status = 200
    /\ last.text = DocScriptOnly
    /\ RowsWithId(socimi_events, last.id) # {}
    /\ socimi_events = before

\* C9: a range run over [start, end] processes every date d with
\* start <= d <= end exactly once, in ascending order, and no other date
\* (one date when start = end, none when start > end), and it terminates.
C9_RangeExactlyOnce ==
    /\ [](cmd = "backfill" =>
            \E n \in 0 .. Len(RangeSeq(start, end)) :
                processed = SubSeq(RangeSeq(start, end), 1, n))
    /\ [](pc = "done" =>
            /\ processed = RangeSeq(start, end)
            /\ (start = end => processed = << start >>)
            /\ (start > end => processed = << >>))
    /\ <>(pc \in Terminal)

\* C9, witness: a run over more than one date has ended.
C9_RangeDone ==
    /\ pc = "done"
    /\ start < end
    /\ processed = RangeSeq(start, end)

\* C10, as claimed: the run operation processes every date of the trailing
\* window, from today minus the window through today, once each, and
\* reports the accumulated total.
C10_RunProcessesWindow ==
    (cmd = "run" /\ pc \in Terminal) =>
        /\ pc = "done"
        /\ processed = RangeSeq(end - WindowDays, end)
        /\ stdout = << total >>

\* the rules of ADOPTION_PATTERNS that match somewhere in the text
MatchingRules(text) == {k \in ADOPTION_PATTERNS : \E i \in 1 .. Len(text) : k \in text[i]}

\* C11: for every text, find_adoption returns one (pattern, excerpt) pair
\* whose pattern is the matching rule that comes first in the order of
\* ADOPTION_PATTERNS, wherever in the text each rule matches, and it returns
\* none only when no rule matches.
C11_PatternPriority ==
    pc = "found" =>
        LET ks == MatchingRules(txt)
        IN  /\ DOMAIN result = {"pattern", "excerpt"}
            /\ (result = NoHit) <=> (ks = {})
            /\ ks # {} =>
                 /\ result.pattern \in ks
                 /\ \A k \in ks : result.pattern <= k

\* C11, witness: two rules match, the later rule of the order matches
\* earlier in the text, and the earlier rule of the order is returned.
C11_LaterRuleMatchesFirst ==
    /\ pc = "found"
    /\ \E k, j \in MatchingRules(txt) :
        /\ k < j
        /\ Search(j, txt) < Search(k, txt)
        /\ result.pattern = k

\* C12: for a match at [s, e) (0-based) in a text of length L the excerpt
\* is text[max(s-140,0) : min(e+140,L)]: up to 140 characters before the
\* match, the whole match, up to 140 characters after it, and nothing
\* outside the text.
C12_ExcerptBounds ==
    (pc = "found" /\ IsHit(result)) =>
        LET k == result.pattern
            s == Search(k, txt) - 1
            e == MatchEnd(k, txt, s + 1)
            L == Len(txt)
            pre == IF s < ExcerptPad THEN s ELSE ExcerptPad
            post == IF L - e < ExcerptPad THEN L - e ELSE ExcerptPad
        IN  /\ Len(result.excerpt) = pre + (e - s) + post
            /\ \A i \in 1 .. Len(result.excerpt) : result.excerpt[i] = txt[(s - pre) + i]
            /\ \A i \in (pre + 1) .. (pre + (e - s)) : k \in result.excerpt[i]
            /\ 0 <= s - pre
            /\ e + post <= L

\* C12, witness: a match of more than one character with less than 140
\* characters before it and more than 140 after it: the excerpt is clipped
\* at the start of the text and has its full window at the end.
C12_ClippedAtStart ==
    /\ pc = "found"
    /\ IsHit(result)
    /\ LET k == result.pattern
           s == Search(k, txt) - 1
           e == MatchEnd(k, txt, s + 1)
       IN  /\ 0 < s
           /\ s < ExcerptPad
           /\ e - s > 1
           /\ Len(txt) - e > ExcerptPad
           /\ Len(result.excerpt) = s + (e - s) + ExcerptPad

\* what C13 says a section yields: the items of its subsections when it has
\* subsections, the items attached to it when it has none
ClaimedSectionItems(s) ==
    IF s.codigo # "C" THEN << >>
    ELSE LET apartados == _as_list(s.apartado)
         IN  IF apartados # << >>
             THEN Flatten([i \in 1 .. Len(apartados) |->
                            Pairs(_as_list(apartados[i].item), apartados[i].nombre)])
             ELSE Pairs(_as_list(s.item), None)

ClaimedItems(sumario) ==
    LET diarios == _as_list(sumario.diario)
        of(diario) ==
            LET secciones == _as_list(diario.seccion)
            IN  Flatten([i \in 1 .. Len(secciones) |-> ClaimedSectionItems(secciones[i])])
    IN  Flatten([i \in 1 .. Len(diarios) |-> of(diarios[i])])

\* C13, as claimed: for every diario and every section of code C,
\* iter_section_c_items yields every item of every apartado with the
\* apartado's name, and the items attached to the section (with no
\* apartado) when the section has no apartados; for a section with
\* apartados it yields exactly the items of its apartados.  Other sections
\* yield nothing; every grouping field may be absent, one object or a list.
C13_DirectItemsOnlyWithoutApartados ==
    (last.of = "sumario" /\ last.status = 200 /\ ~last.json.empty) =>
        items = ClaimedItems(last.json)

\* C14, as claimed: in a range run, between the summary request for one
\* date and the summary request for the next date there is always a pause,
\* whether the earlier date returned, had no summary or raised: process_date
\* is called for a date that is not the first one only right after the sleep.
C14_PauseBetweenDates ==
    [][(pc = "daterange" /\ pc' = "fetch_sumario" /\ processed # << >>)
        => last.kind = "slept"]_vars

\* C15: no retry.  In a range run the summary of a date is requested at
\* most once: every summary request is the first step after daterange
\* yielded the date, and no date is yielded twice.  In a process_date call
\* the document of a yielded item is requested at most once: every document
\* request is for the head of the items left, and the step drops that item
\* whether the request succeeded or failed.
C15_NoRetry ==
    /\ [][pc = "fetch_sumario" =>
            /\ last.kind = "yield"
            /\ last'.of = "sumario"
            /\ pc' # "fetch_sumario"
            /\ processed[Len(processed)] = cur
            /\ \A i \in 1 .. Len(processed) - 1 : processed[i] # cur]_vars
    /\ [][requests' # requests =>
            \/ pc = "daterange" /\ requests' = 0
            \/ /\ requests' = requests + 1
               /\ pc = "items"
               /\ items # << >>
               /\ last'.id = Head(items).item.identificador
               /\ Len(items') < Len(items)
               /\ pc' = "items" => items' = Tail(items)]_vars

\* C15, witness: an earlier date of the run raised, and in a later date a
\* document request has just failed with items left.
C15_FailedNotReissued ==
    /\ stderr # << >>
    /\ pc = "items"
    /\ last.of = "item"
    /\ last.requested
    /\ last.status # 200
    /\ last.left > 0
    /\ requests = 1

\* C16: the core never deletes an event and changes a row only by
\* re-detecting its identifier: in every step the set of ids of the table
\* does not shrink, no row is lost, the table changes only in a step that
\* hands a record to save_event, and save_event(rec) leaves every row whose
\* id differs from rec.id as it was.
C16_NeverDeletes ==
    [][/\ Ids(socimi_events) \subseteq Ids(socimi_events')
       /\ BagCardinality(socimi_events') >= BagCardinality(socimi_events)
       /\ socimi_events' # socimi_events =>
            /\ pc = "items"
            /\ last'.rec # NoRec
            /\ \A r \in BagToSet(socimi_events) \cup BagToSet(socimi_events') :
                 r.id # last'.rec.id =>
                    CopiesIn(r, socimi_events') = CopiesIn(r, socimi_events)]_vars

\* C16, witness: an identifier that had another row when this process_date
\* began has just been saved, and a row of another id is still in the table.
C16_OtherRowsKept ==
    /\ last.kind = "saved"
    /\ last.id # None
    /\ RowsWithId(before, last.id) # {}
    /\ last.rec \notin RowsWithId(before, last.id)
    /\ \E r \in BagToSet(before) : r.id # last.id /\ BagIn(r, socimi_events)

\* the outcomes of an item step in which save_event raised
SaveRaised == {"execute_raises", "commit_raises"}

\* C17: a store write failure inside process_date is fatal for that date
\* only: the exception of save_event leaves process_date (the items left
\* are not processed, nothing is returned or counted), the date is reported
\* by the except branch of the range loop, and the very next step of the
\* run is process_date for the next date, or the end of the run when no
\* date is left.
C17_StoreFailureFatalForDate ==
    /\ [][(pc = "items" /\ last'.kind \in SaveRaised) =>
            /\ pc' = "daterange"
            /\ items' = << >>
            /\ cur' = cur + 1
            /\ stderr' = Append(stderr, cur)
            /\ total' = total
            /\ count' = count
            /\ returned' = returned]_vars
    /\ [][last.kind \in SaveRaised =>
            IF cur <= end
            THEN pc' = "fetch_sumario" /\ processed' = Append(processed, cur)
            ELSE pc' = "done" /\ processed' = processed]_vars

\* C17, witness: save_event raised with items of the date left and a date
\* of the range still to come.
C17_SaveRaisedItemsLeft ==
    /\ last.kind \in SaveRaised
    /\ last.left > 0
    /\ pc = "daterange"
    /\ cur <= end
    /\ stderr # << >>

\* the url_html of an item is missing or empty
NoUrl(it) ==
    \/ it.url_html.kind = "none"
    \/ it.url_html.texto = None
    \/ it.url_html.texto = ""

\* C18: an item whose url_html is empty or missing is skipped without
\* failing: no document request is sent for it, the table and the count
\* are left alone, nothing is raised, and the loop goes on with the items
\* that are left.
C18_NoUrlSkipsItem ==
    [][(pc = "items" /\ items # << >> /\ NoUrl(Head(items).item)) =>
         /\ requests' = requests
         /\ ~last'.requested
         /\ socimi_events' = socimi_events
         /\ count' = count
         /\ stderr' = stderr
         /\ pc' = "items"
         /\ items' = Tail(items)]_vars

\* C18, witness: an item without url_html was skipped, no request was sent
\* and an item of the date is left.
C18_NoUrlSeen ==
    /\ last.of = "item"
    /\ ~last.requested
    /\ requests = 0
    /\ pc = "items"
    /\ items # << >>
    /\ ~NoUrl(Head(items).item)

\* the records process_date saved (save_event returned) for date d in this run
SavedOn(d) == {r \in BagToSet(saved_recs) : r.pub_date = isoformat(d)}
\* how many upserts process_date completed for date d in this run
UpsertsOn(d) ==
    LET RECURSIVE Sum(_)
        Sum(S) == IF S = {} THEN 0
                  ELSE LET r == CHOOSE x \in S : TRUE
                       IN  CopiesIn(r, saved_recs) + Sum(S \ {r})
    IN  Sum(SavedOn(d))

\* C19: no rollback on a failing date.  When process_date raises after k >= 1
\* upserts for the date, the k events are still in the table (each as saved,
\* or overwritten by a later observation of its id for the same date) and
\* the date adds nothing to the total; so the total of the run is at most
\* the number of upserts completed in the run, and at the end it is less
\* exactly when some date failed after a completed upsert.
C19_NoRollback ==
    /\ (last.kind \in SaveRaised /\ count >= 1) =>
          LET d == stderr[Len(stderr)]
          IN  /\ UpsertsOn(d) = count
              /\ \A r \in SavedOn(d) :
                    IF r.id = None THEN BagIn(r, socimi_events)
                    ELSE \E row \in RowsWithId(socimi_events, r.id) :
                            row.pub_date = r.pub_date
              /\ \A i \in 1 .. Len(returned) : returned[i].d # d
              /\ total = SumN(returned)
    /\ cmd = "backfill" => total <= BagCardinality(saved_recs)
    /\ pc = "done" =>
          /\ stdout = << total >>
          /\ (total < BagCardinality(saved_recs))
               <=> (\E i \in 1 .. Len(stderr) : UpsertsOn(stderr[i]) >= 1)

\* C19, witness: the run is over, a date that failed after an upsert left
\* its row in the table, and another date was counted in the total.
C19_FailedDateRowsKept ==
    /\ pc = "done"
    /\ total >= 1
    /\ \E i \in 1 .. Len(stderr) :
        /\ UpsertsOn(stderr[i]) >= 1
        /\ \E r \in SavedOn(stderr[i]) : BagIn(r, socimi_events)
    /\ total < BagCardinality(saved_recs)

\* C20, as claimed: every row written by process_date has a present id, the
\* item's identificador: an item without identificador is never persisted,
\* so process_date adds no row without id to the table and two matched
\* items without identificador never give two rows with the absent key.
C20_RowsHaveIds ==
    /\ \A r \in BagToSet(saved_recs) : r.id # None
    /\ CountId(socimi_events, None) <= CountId(before, None)

====
